---- MODULE Spec2Model ----
(***************************************************************************)
(* A model of the Mol-lang to C++ compiler (src/compiler.cpp).            *)
(*                                                                         *)
(* Source text and token text are byte strings: sequences of the UTF-8    *)
(* code units (0..255) that std::string holds.  Generated text is the     *)
(* sequence of operands the code inserts into its string streams, each a  *)
(* TLA+ string; Flatten joins them into the one text that is returned.    *)
(***************************************************************************)
EXTENDS Integers, Sequences, FiniteSets, TLC

VARIABLES
    variable_map,   \* std::map<string,string> variable_map   (compiler.cpp:110)
    var_counter,    \* int var_counter                        (compiler.cpp:111)
    function_map,   \* std::map<string,string> function_map   (compiler.cpp:112)
    func_counter,   \* int func_counter                       (compiler.cpp:113)
    pc,             \* position of the running call
    mollang_code,   \* the source text handed to translate_to_cpp
    tokens,         \* translate_to_cpp's local: the token vector
    parser_pos,     \* Parser::pos once parse() has returned or thrown
    ast,            \* translate_to_cpp's local: the top-level statements
    calls,          \* the parse_statement calls that returned, in order
    cpp_code,       \* the text translate_to_cpp returned
    exc,            \* the exception in flight, if any
    cpp_file,       \* what main wrote to <basename>.cpp
    cerr,           \* what main wrote to std::cerr
    exit_status,    \* main's return value
    arg,            \* argument of the function being called
    ret,            \* its result
    page_pc,            \* script.js: how far main() has come
    codeInput,          \* codeInput.value                    (script.js:1)
    runButton,          \* runButton.disabled, .textContent   (script.js:2)
    output,             \* output.textContent                 (script.js:3)
    inputData,          \* inputData.value                    (script.js:4)
    submitButton,       \* submitButton.disabled              (script.js:5)
    codeToRun,          \* let codeToRun                      (script.js:17)
    isWaitingForInput,  \* let isWaitingForInput              (script.js:18)
    interpreter_calls   \* the calls of run_mollang_code made, in order

\* the state of the browser front end
frontVars == <<page_pc, codeInput, runButton, output, inputData, submitButton,
               codeToRun, isWaitingForInput, interpreter_calls>>

vars == <<variable_map, var_counter, function_map, func_counter, pc,
          mollang_code, tokens, parser_pos, ast, calls, cpp_code, exc, cpp_file,
          cerr, exit_status, arg, ret, frontVars>>

\* no page is open: the compiler runs on its own
FrontIdle ==
    /\ page_pc = "none"
    /\ codeInput = <<>>
    /\ runButton = [disabled |-> FALSE, textContent |-> ""]
    /\ output = ""
    /\ inputData = <<>>
    /\ submitButton = [disabled |-> FALSE]
    /\ codeToRun = <<>>
    /\ isWaitingForInput = FALSE
    /\ interpreter_calls = <<>>

(***************************************************************************)
(* Bounds of the model.                                                    *)
(***************************************************************************)
MaxVarPieces == 4

MaxLexPieces == 3

MaxNames == 3

MaxFragments == 3

MaxRepeatFragments == 2

MaxOps == 2

MaxTokens == 5

MaxInvocations == 2

(***************************************************************************)
(* The glyphs and keywords of the language, as their UTF-8 bytes.         *)
(***************************************************************************)
G_bap == <<235, 176, 165>>                                   \* "밥"
G_ba == <<235, 176, 148>>                                    \* "바"
G_a == <<236, 149, 132>>                                     \* "아"
G_ap == <<236, 149, 149>>                                    \* "압"

KW_eun == <<236, 157, 128>>                                  \* "은"
KW_ip == <<236, 158, 133>>                                   \* "입"
KW_mol == <<235, 170, 176>>                                  \* "몰"
KW_camp == <<236, 186, 160, 237, 148, 132>>                  \* "캠프"
KW_toegeun == <<237, 135, 180, 234, 183, 188>>               \* "퇴근"
KW_scrum == <<236, 138, 164, 237, 129, 172, 235, 159, 188>>  \* "스크럼"
KW_mwomeok == <<235, 173, 144, 235, 168, 185>>               \* "뭐먹"
KW_deotsem == <<235, 141, 167, 236, 133, 136>>               \* "덧셈"
KW_hap == <<237, 149, 169>>                                  \* "합"
KW_deohagi == <<235, 141, 148, 237, 149, 152, 234, 184, 176>> \* "더하기"
KW_gopsem == <<234, 179, 177, 236, 133, 136>>                \* "곱셈"
KW_gop == <<234, 179, 177>>                                  \* "곱"
KW_gat == <<234, 176, 153>>                                  \* "같"
KW_jak == <<236, 158, 145>>                                  \* "작"
KW_gatjak == <<234, 176, 153, 236, 158, 145>>                \* "같작"
KW_jakgat == <<236, 158, 145, 234, 176, 153>>                \* "작같"
KW_cursor == <<236, 187, 164, 236, 132, 156>>                \* "커서"
KW_gpt == <<236, 167, 128, 237, 148, 188, 237, 139, 176>>    \* "지피티"
KW_gemini == <<236, 160, 156, 235, 175, 184, 235, 130, 152, 236, 157, 180>> \* "제미나이"
KW_claude == <<237, 129, 180, 235, 161, 156, 235, 147, 156>> \* "클로드"
KW_cline == <<237, 129, 180, 235, 157, 188, 236, 157, 184>>  \* "클라인"
KW_grok == <<234, 183, 184, 235, 161, 157>>                  \* "그록"

\* The reserved words tokenize compares a word against.
Keywords ==
    {KW_eun, KW_ip, KW_mol, KW_camp, KW_toegeun, KW_scrum, KW_mwomeok,
     KW_deotsem, KW_hap, KW_deohagi, KW_gopsem, KW_gop,
     KW_gat, KW_jak, KW_gatjak, KW_jakgat,
     KW_cursor, KW_gpt, KW_gemini, KW_claude, KW_cline, KW_grok}

(***************************************************************************)
(* std::string operations on byte strings (positions count from 0).       *)
(***************************************************************************)
Min(a, b) == IF a < b THEN a ELSE b

\* s.substr(p, n), for p <= s.length()
substr(s, p, n) == SubSeq(s, p + 1, Min(p + n, Len(s)))

\* s.rfind(prefix, 0) == 0
starts_with(s, prefix) ==
    Len(s) >= Len(prefix) /\ SubSeq(s, 1, Len(prefix)) = prefix

\* All byte strings made of at most n pieces of V, one after the other.
RECURSIVE Concats(_, _)
Concats(V, n) ==
    IF n = 0 THEN {<<>>}
    ELSE LET S == Concats(V, n - 1) IN S \cup {s \o p : s \in S, p \in V}

(***************************************************************************)
(* is_variable: the variable-name pattern.                                 *)
(***************************************************************************)
\* The loop of is_variable with a bound that stops before the last whole
\* chunk could overlap the suffix (a variant of the loop condition).
RECURSIVE is_variable_loop_whole(_, _)
is_variable_loop_whole(token, i) ==
    IF i + 3 <= Len(token) - 3
    THEN IF substr(token, i, 3) # G_a THEN FALSE
         ELSE is_variable_loop_whole(token, i + 3)
    ELSE TRUE

\* for (size_t i = 3; i < token.length() - 3; i += 3)
RECURSIVE is_variable_loop(_, _)
is_variable_loop(token, i) ==
    IF i < Len(token) - 3
    THEN IF substr(token, i, 3) # G_a THEN FALSE
         ELSE is_variable_loop(token, i + 3)
    ELSE TRUE

is_variable(token) ==
    IF token = G_bap THEN TRUE
    ELSE IF /\ Len(token) >= 6
            /\ starts_with(token, G_ba)
            /\ substr(token, Len(token) - 3, 3) = G_ap
         THEN is_variable_loop(token, 3)
         ELSE FALSE

(***************************************************************************)
(* Exceptions: the type thrown and the pieces of its what() text.          *)
(***************************************************************************)
NoException == [kind |-> "none", what |-> <<>>]

runtime_error(what) == [kind |-> "runtime_error", what |-> what]

\* what libstdc++'s std::stoi throws when the value does not fit an int
out_of_range_stoi == [kind |-> "out_of_range", what |-> <<"stoi">>]

(***************************************************************************)
(* std::stoi(value), base 10, as far as tokenize observes it: whether it   *)
(* returns, throws std::invalid_argument or throws std::out_of_range.      *)
(* strtol skips leading white space, takes an optional sign and then the   *)
(* longest run of digits; what follows the digits is ignored.              *)
(***************************************************************************)
\* isspace in the "C" locale (the program never calls setlocale); bytes of
\* 128 and above are not white space there.
isspace(c) == c \in {32, 9, 10, 11, 12, 13}

isdigit(c) == c >= 48 /\ c <= 57

RECURSIVE stoi_skip_space(_, _)
stoi_skip_space(s, i) ==
    IF i <= Len(s) /\ isspace(s[i]) THEN stoi_skip_space(s, i + 1) ELSE i

\* The magnitude of the digits from position i on, against the range of int:
\* "fit" (at most 2147483647, in acc), "min" (exactly 2147483648), "over".
RECURSIVE stoi_digits(_, _, _, _)
stoi_digits(s, i, acc, cls) ==
    IF i <= Len(s) /\ isdigit(s[i])
    THEN LET d == s[i] - 48 IN
         IF cls # "fit" \/ acc > 214748364 \/ (acc = 214748364 /\ d = 9)
         THEN stoi_digits(s, i + 1, 0, "over")
         ELSE IF acc = 214748364 /\ d = 8
         THEN stoi_digits(s, i + 1, 0, "min")
         ELSE stoi_digits(s, i + 1, acc * 10 + d, "fit")
    ELSE cls

\* "ok", "invalid_argument" or "out_of_range"
stoi(s) ==
    LET i == stoi_skip_space(s, 1)
        neg == i <= Len(s) /\ s[i] = 45
        signed == i <= Len(s) /\ s[i] \in {43, 45}
        j == IF signed THEN i + 1 ELSE i
    IN  IF ~(j <= Len(s) /\ isdigit(s[j])) THEN "invalid_argument"
        ELSE LET cls == stoi_digits(s, j, 0, "fit") IN
             IF cls = "fit" \/ (cls = "min" /\ neg) THEN "ok"
             ELSE "out_of_range"

(***************************************************************************)
(* tokenize                                                                *)
(***************************************************************************)
Token(type, value) == [type |-> type, value |-> value]

\* while (i < code.length() && code[i] != quote) i++;   (i counts from 0)
RECURSIVE scan_string(_, _, _)
scan_string(code, i, quote) ==
    IF i < Len(code) /\ code[i + 1] # quote
    THEN scan_string(code, i + 1, quote) ELSE i

\* while (i < code.length() && !isspace(code[i]) && code[i] != '[' && code[i] != ']') i++;
RECURSIVE scan_word(_, _)
scan_word(code, i) ==
    IF i < Len(code) /\ ~isspace(code[i + 1]) /\ code[i + 1] # 91 /\ code[i + 1] # 93
    THEN scan_word(code, i + 1) ELSE i

\* try { std::stoi(value); NUMBER } catch (const std::invalid_argument&) { IDENTIFIER }
classify_number(value) ==
    LET r == stoi(value) IN
    IF r = "ok"
    THEN [ok |-> TRUE, token |-> Token("NUMBER", value), exc |-> NoException]
    ELSE IF r = "invalid_argument"
    THEN [ok |-> TRUE, token |-> Token("IDENTIFIER", value), exc |-> NoException]
    ELSE [ok |-> FALSE, token |-> Token("NUMBER", value), exc |-> out_of_range_stoi]

\* The body of the for loop, from position i (counted from 0) with the
\* tokens pushed so far; the result is what tokenize returns or throws.
RECURSIVE tokenize_loop(_, _, _)
tokenize_loop(code, i, toks) ==
    IF ~(i < Len(code))
    THEN [ok |-> TRUE, tokens |-> Append(toks, Token("END_OF_FILE", <<>>)),
          exc |-> NoException]
    ELSE LET c == code[i + 1] IN
    IF isspace(c) THEN tokenize_loop(code, i + 1, toks)
    ELSE IF c = 91 \/ c = 93
    THEN tokenize_loop(code, i + 1, Append(toks, Token("SYMBOL", <<c>>)))
    ELSE IF c = 34 \/ c = 39
    THEN LET start == i + 1
             e == scan_string(code, start, c)
             tok == Token("STRING", substr(code, start, e - start))
         IN  tokenize_loop(code, IF e < Len(code) THEN e + 1 ELSE e,
                           Append(toks, tok))
    ELSE LET e == scan_word(code, i)
             value == substr(code, i, e - i)
         IN  IF value = <<>> THEN tokenize_loop(code, e, toks)
             ELSE IF value \in Keywords
             THEN tokenize_loop(code, e, Append(toks, Token("KEYWORD", value)))
             ELSE IF is_variable(value)
             THEN tokenize_loop(code, e, Append(toks, Token("IDENTIFIER", value)))
             ELSE LET r == classify_number(value) IN
                  IF r.ok THEN tokenize_loop(code, e, Append(toks, r.token))
                  ELSE [ok |-> FALSE, tokens |-> <<>>, exc |-> r.exc]

tokenize(code) == tokenize_loop(code, 0, <<>>)

(***************************************************************************)
(* Generated text.  A text is the sequence of the operands inserted into   *)
(* a string stream or joined by +; each operand is a TLA+ string.  Bytes   *)
(* that come from the source text are written as their ASCII character,    *)
(* and bytes outside printable ASCII as {hh}, their value in hexadecimal   *)
(* ('{' itself is written {7b}, which keeps the rendering one-to-one; the  *)
(* grave accent is written {60}).                                          *)
(***************************************************************************)
\* the printable ASCII characters, 32..126
AsciiChars ==
    <<
      " ", "!", "\"", "#", "$", "%", "&", "'", "(", ")", "*", "+",
      ",", "-", ".", "/", "0", "1", "2", "3", "4", "5", "6", "7",
      "8", "9", ":", ";", "<", "=", ">", "?", "@", "A", "B", "C",
      "D", "E", "F", "G", "H", "I", "J", "K", "L", "M", "N", "O",
      "P", "Q", "R", "S", "T", "U", "V", "W", "X", "Y", "Z", "[",
      "\\", "]", "^", "_", "{60}", "a", "b", "c", "d", "e", "f", "g",
      "h", "i", "j", "k", "l", "m", "n", "o", "p", "q", "r", "s",
      "t", "u", "v", "w", "x", "y", "z", "{", "|", "}", "~" >>

HexDigits ==
    <<"0", "1", "2", "3", "4", "5", "6", "7", "8", "9",
      "a", "b", "c", "d", "e", "f">>

CharOf(b) ==
    IF b >= 32 /\ b <= 126 /\ b # 123 THEN AsciiChars[b - 31]
    ELSE "{" \o HexDigits[(b \div 16) + 1] \o HexDigits[(b % 16) + 1] \o "}"

\* a byte string as one operand
RECURSIVE TextOf(_)
TextOf(bytes) ==
    IF bytes = <<>> THEN "" ELSE CharOf(Head(bytes)) \o TextOf(Tail(bytes))

\* the text the operands make
RECURSIVE Flatten(_)
Flatten(text) ==
    IF text = <<>> THEN "" ELSE Head(text) \o Flatten(Tail(text))

(***************************************************************************)
(* The symbol namer: the two global maps and their counters, threaded      *)
(* through the functions that use them as one record.                      *)
(***************************************************************************)
Digits == <<"0", "1", "2", "3", "4", "5", "6", "7", "8", "9">>

\* std::to_string(n), n >= 0
RECURSIVE to_string(_)
to_string(n) ==
    IF n < 10 THEN Digits[n + 1]
    ELSE to_string(n \div 10) \o Digits[(n % 10) + 1]

\* variable_map.clear(); var_counter = 0; function_map.clear(); func_counter = 0;
ResetNamer ==
    [variable_map |-> <<>>, var_counter |-> 0,
     function_map |-> <<>>, func_counter |-> 0]

\* get_cpp_var without the lookup: every call takes a fresh name (a variant).
get_cpp_var_always_new(st, mol_var) ==
    LET name == "var_" \o to_string(st.var_counter)
        keep == [k \in DOMAIN st.variable_map \ {mol_var} |-> st.variable_map[k]]
    IN  [st |-> [st EXCEPT !.variable_map = (mol_var :> name) @@ keep,
                           !.var_counter = @ + 1],
         ret |-> name]

\* The namer after the call, and the name returned.
get_cpp_var(st, mol_var) ==
    LET st1 == IF mol_var \notin DOMAIN st.variable_map
               THEN [st EXCEPT
                       !.variable_map =
                           (mol_var :> ("var_" \o to_string(st.var_counter))) @@ @,
                       !.var_counter = @ + 1]
               ELSE st
    IN  [st |-> st1, ret |-> st1.variable_map[mol_var]]

get_cpp_func(st, mol_func) ==
    LET st1 == IF mol_func \notin DOMAIN st.function_map
               THEN [st EXCEPT
                       !.function_map =
                           (mol_func :> ("func_" \o to_string(st.func_counter))) @@ @,
                       !.func_counter = @ + 1]
               ELSE st
    IN  [st |-> st1, ret |-> st1.function_map[mol_func]]

\* The globals as one record, and the globals set from one.
Namer ==
    [variable_map |-> variable_map, var_counter |-> var_counter,
     function_map |-> function_map, func_counter |-> func_counter]

SetNamer(st) ==
    /\ variable_map' = st.variable_map
    /\ var_counter' = st.var_counter
    /\ function_map' = st.function_map
    /\ func_counter' = st.func_counter

(***************************************************************************)
(* The AST: one record shape per node struct.                              *)
(***************************************************************************)
NumberNode(v) == [type |-> "Number", value |-> v]

StringNode(v) == [type |-> "String", value |-> v]

VariableNode(n) == [type |-> "Variable", name |-> n]

InputNode == [type |-> "Input"]

BinaryOpNode(l, o, r) == [type |-> "BinaryOp", left |-> l, op |-> o, right |-> r]

AssignNode(n, e) == [type |-> "Assign", var_name |-> n, expr |-> e]

PrintNode(e) == [type |-> "Print", expr |-> e]

IfNode(c, b) == [type |-> "If", condition |-> c, body |-> b]

WhileNode(c, b) == [type |-> "While", condition |-> c, body |-> b]

FuncDefNode(n, b) == [type |-> "FuncDef", name |-> n, body |-> b]

FuncCallNode(n) == [type |-> "FuncCall", name |-> n]

ReturnNode(e) == [type |-> "Return", expr |-> e]

(***************************************************************************)
(* The parser.  pos counts from 0, as Parser::pos does.  A parse function  *)
(* yields what it returns (val) or the exception it throws (exc), the      *)
(* cursor it leaves, and the parse_statement calls that have returned.     *)
(***************************************************************************)
POk(val, pos, log) ==
    [ok |-> TRUE, val |-> val, pos |-> pos, exc |-> NoException, log |-> log]

PFail(e, pos, log) ==
    [ok |-> FALSE, val |-> <<>>, pos |-> pos, exc |-> e, log |-> log]

\* what Parser::peek throws when pos >= tokens.size()
peek_error ==
    runtime_error(<<"Parser error: Unexpected end of file while peeking.">>)

\* what Parser::consume throws when pos >= tokens.size()
consume_error ==
    runtime_error(<<"Parser error: Unexpected end of file while consuming.">>)

\* the easter-egg sentences of parse_simple_expr
S_cursor ==
    <<236, 187, 164, 236, 132, 156, 235, 138, 148, 32, 236, 139, 160, 236,
      157, 180, 236, 149, 188>>

S_gpt ==
    <<236, 167, 128, 237, 148, 188, 237, 139, 176, 235, 138, 148, 32, 236,
      154, 148, 236, 166, 152, 32, 236, 149, 160, 235, 167, 164, 237, 149,
      180>>

S_gemini ==
    <<236, 160, 156, 235, 175, 184, 235, 130, 152, 236, 157, 180, 235, 138,
      148, 32, 236, 158, 152, 32, 235, 148, 176, 235, 157, 188, 234, 176,
      128, 235, 138, 148, 236, 164, 145>>

S_claude ==
    <<237, 129, 180, 235, 161, 156, 235, 147, 156, 235, 138, 148, 32, 76, 76,
      77, 32, 236, 164, 145, 32, 236, 189, 148, 235, 148, 169, 32, 235, 129,
      157, 237, 140, 144, 236, 153, 149>>

S_cline ==
    <<237, 129, 180, 235, 157, 188, 236, 157, 184, 235, 143, 132, 32, 235,
      160, 136, 236, 160, 132, 235, 147, 156, 236, 158, 133, 235, 139, 136,
      235, 139, 164, 226, 128, 166, 32, 234, 188, 173, 32, 236, 147, 176,
      236, 132, 184, 236, 154, 148>>

S_grok ==
    <<234, 183, 184, 235, 161, 157, 32, 235, 136, 132, 234, 176, 128, 236,
      148, 128, 63>>

\* parse_simple_expr with a consume that does not test pos against
\* tokens.size() and reads an empty token behind the end (a variant).
parse_simple_expr_unchecked(toks, pos) ==
    IF pos >= Len(toks)
    THEN PFail(runtime_error(<<"Invalid expression term: ", "">>), pos + 1, <<>>)
    ELSE LET token == toks[pos + 1] IN
    IF token.type = "NUMBER" THEN POk(NumberNode(token.value), pos + 1, <<>>)
    ELSE IF token.type = "STRING" THEN POk(StringNode(token.value), pos + 1, <<>>)
    ELSE IF token.type = "IDENTIFIER"
    THEN POk(VariableNode(token.value), pos + 1, <<>>)
    ELSE IF token.value = KW_mwomeok THEN POk(InputNode, pos + 1, <<>>)
    ELSE IF token.value = KW_cursor THEN POk(StringNode(S_cursor), pos + 1, <<>>)
    ELSE IF token.value = KW_gpt THEN POk(StringNode(S_gpt), pos + 1, <<>>)
    ELSE IF token.value = KW_gemini THEN POk(StringNode(S_gemini), pos + 1, <<>>)
    ELSE IF token.value = KW_claude THEN POk(StringNode(S_claude), pos + 1, <<>>)
    ELSE IF token.value = KW_cline THEN POk(StringNode(S_cline), pos + 1, <<>>)
    ELSE IF token.value = KW_grok THEN POk(StringNode(S_grok), pos + 1, <<>>)
    ELSE PFail(runtime_error(<<"Invalid expression term: ", TextOf(token.value)>>),
               pos + 1, <<>>)

parse_simple_expr(toks, pos) ==
    IF pos >= Len(toks) THEN PFail(consume_error, pos, <<>>)
    ELSE LET token == toks[pos + 1] IN
    IF token.type = "NUMBER" THEN POk(NumberNode(token.value), pos + 1, <<>>)
    ELSE IF token.type = "STRING" THEN POk(StringNode(token.value), pos + 1, <<>>)
    ELSE IF token.type = "IDENTIFIER"
    THEN POk(VariableNode(token.value), pos + 1, <<>>)
    ELSE IF token.value = KW_mwomeok THEN POk(InputNode, pos + 1, <<>>)
    ELSE IF token.value = KW_cursor THEN POk(StringNode(S_cursor), pos + 1, <<>>)
    ELSE IF token.value = KW_gpt THEN POk(StringNode(S_gpt), pos + 1, <<>>)
    ELSE IF token.value = KW_gemini THEN POk(StringNode(S_gemini), pos + 1, <<>>)
    ELSE IF token.value = KW_claude THEN POk(StringNode(S_claude), pos + 1, <<>>)
    ELSE IF token.value = KW_cline THEN POk(StringNode(S_cline), pos + 1, <<>>)
    ELSE IF token.value = KW_grok THEN POk(StringNode(S_grok), pos + 1, <<>>)
    ELSE PFail(runtime_error(<<"Invalid expression term: ", TextOf(token.value)>>),
               pos + 1, <<>>)

\* The operator symbol, or the exception thrown.
get_operator(token) ==
    IF token \in {KW_deotsem, KW_hap, KW_deohagi}
    THEN [ok |-> TRUE, op |-> "+", exc |-> NoException]
    ELSE IF token \in {KW_gopsem, KW_gop}
    THEN [ok |-> TRUE, op |-> "*", exc |-> NoException]
    ELSE IF token = KW_gat THEN [ok |-> TRUE, op |-> "==", exc |-> NoException]
    ELSE IF token = KW_jak THEN [ok |-> TRUE, op |-> "<", exc |-> NoException]
    ELSE IF token \in {KW_gatjak, KW_jakgat}
    THEN [ok |-> TRUE, op |-> "<=", exc |-> NoException]
    ELSE [ok |-> FALSE, op |-> "",
          exc |-> runtime_error(<<"Unknown operator: ", TextOf(token)>>)]

\* The join that lets * bind tighter than a + to its left (a variant with
\* two precedence levels).
fold_with_precedence(left, op, right) ==
    IF op = "*" /\ left.type = "BinaryOp" /\ left.op = "+"
    THEN BinaryOpNode(left.left, left.op, BinaryOpNode(left.right, op, right))
    ELSE BinaryOpNode(left, op, right)

\* how parse_expression joins the tree built so far with the next term
fold_left(left, op, right) == BinaryOpNode(left, op, right)

\* The while loop of parse_expression, with the tree built so far.
RECURSIVE parse_expression_loop(_, _, _)
parse_expression_loop(toks, pos, left) ==
    IF pos >= Len(toks) THEN PFail(peek_error, pos, <<>>)
    ELSE IF toks[pos + 1].type # "KEYWORD" THEN POk(left, pos, <<>>)
    ELSE LET op_token == toks[pos + 1].value IN
    IF op_token \in {KW_eun, KW_ip, KW_mol, KW_scrum, KW_camp, KW_toegeun}
    THEN POk(left, pos, <<>>)
    ELSE IF op_token = <<91>> \/ op_token = <<93>> THEN POk(left, pos, <<>>)
    ELSE LET o == get_operator(op_token) IN
         IF ~o.ok THEN PFail(o.exc, pos + 1, <<>>)
         ELSE LET right == parse_simple_expr(toks, pos + 1) IN
              IF ~right.ok THEN right
              ELSE parse_expression_loop(toks, right.pos,
                                         fold_left(left, o.op, right.val))

parse_expression(toks, pos) ==
    LET left == parse_simple_expr(toks, pos) IN
    IF ~left.ok THEN left ELSE parse_expression_loop(toks, left.pos, left.val)

\* parse_statement returns node, having started at from and left the cursor at to
stmt_return(node, from, to, log) ==
    POk(node, to, Append(log, [from |-> from, to |-> to, type |-> node.type]))

RECURSIVE parse_statement(_, _, _)
RECURSIVE parse_block_loop(_, _, _, _)
RECURSIVE parse_block_next(_, _, _)

parse_block(toks, pos, log) ==
    IF pos >= Len(toks) THEN PFail(consume_error, pos, log)
    ELSE parse_block_loop(toks, pos + 1, <<>>, log)

\* while (peek().value != "]") statements.push_back(parse_statement()); consume();
parse_block_loop(toks, pos, statements, log) ==
    IF pos >= Len(toks) THEN PFail(peek_error, pos, log)
    ELSE IF toks[pos + 1].value # <<93>>
    THEN parse_block_next(toks, statements, parse_statement(toks, pos, log))
    ELSE POk(statements, pos + 1, log)

\* statements.push_back(s), unless parse_statement threw, and the loop again
parse_block_next(toks, statements, s) ==
    IF ~s.ok THEN s
    ELSE parse_block_loop(toks, s.pos, Append(statements, s.val), s.log)

\* a statement made of a keyword and one expression: Print, Return
keyword_expr_statement(toks, pos, log, kind) ==
    LET e == parse_expression(toks, pos + 1) IN
    IF ~e.ok THEN PFail(e.exc, e.pos, log)
    ELSE stmt_return(IF kind = "Print" THEN PrintNode(e.val)
                     ELSE ReturnNode(e.val), pos, e.pos, log)

\* a statement made of a keyword, a condition and a block: If, While
keyword_cond_block_statement(toks, pos, log, kind) ==
    LET cond == parse_expression(toks, pos + 1) IN
    IF ~cond.ok THEN PFail(cond.exc, cond.pos, log)
    ELSE LET body == parse_block(toks, cond.pos, log) IN
         IF ~body.ok THEN body
         ELSE stmt_return(IF kind = "If" THEN IfNode(cond.val, body.val)
                          ELSE WhileNode(cond.val, body.val),
                          pos, body.pos, body.log)

parse_statement(toks, pos, log) ==
    IF pos >= Len(toks) THEN PFail(peek_error, pos, log)
    ELSE LET token == toks[pos + 1] IN
    IF is_variable(token.value)
    THEN \* var_name = consume().value; consume(); parse_expression()
         IF pos + 1 >= Len(toks) THEN PFail(consume_error, pos + 1, log)
         ELSE LET e == parse_expression(toks, pos + 2) IN
              IF ~e.ok THEN PFail(e.exc, e.pos, log)
              ELSE stmt_return(AssignNode(token.value, e.val), pos, e.pos, log)
    ELSE IF token.value = KW_scrum
    THEN keyword_expr_statement(toks, pos, log, "Print")
    ELSE IF token.value = KW_ip
    THEN keyword_cond_block_statement(toks, pos, log, "If")
    ELSE IF token.value = KW_mol
    THEN keyword_cond_block_statement(toks, pos, log, "While")
    ELSE IF starts_with(token.value, KW_camp)
    THEN IF pos + 1 >= Len(toks) THEN PFail(peek_error, pos + 1, log)
         ELSE IF toks[pos + 2].value = <<91>>
         THEN LET body == parse_block(toks, pos + 1, log) IN
              IF ~body.ok THEN body
              ELSE stmt_return(FuncDefNode(token.value, body.val), pos,
                               body.pos, body.log)
         ELSE stmt_return(FuncCallNode(token.value), pos, pos + 1, log)
    ELSE IF token.value = KW_toegeun
    THEN keyword_expr_statement(toks, pos, log, "Return")
    ELSE PFail(runtime_error(<<"Invalid statement start: '",
                               TextOf(token.value), "'">>), pos, log)

\* while (peek().type != END_OF_FILE) statements.push_back(parse_statement());
RECURSIVE parse_loop(_, _, _, _)
RECURSIVE parse_loop_next(_, _, _)
parse_loop(toks, pos, statements, log) ==
    IF pos >= Len(toks) THEN PFail(peek_error, pos, log)
    ELSE IF toks[pos + 1].type # "END_OF_FILE"
    THEN parse_loop_next(toks, statements, parse_statement(toks, pos, log))
    ELSE POk(statements, pos, log)

\* statements.push_back(s), unless parse_statement threw, and the loop again
parse_loop_next(toks, statements, s) ==
    IF ~s.ok THEN s
    ELSE parse_loop(toks, s.pos, Append(statements, s.val), s.log)

\* Parser(tokens).parse()
parse(toks) == parse_loop(toks, 0, <<>>, <<>>)

(***************************************************************************)
(* collect_symbols                                                         *)
(***************************************************************************)
RECURSIVE collect_symbols(_, _)
RECURSIVE collect_symbols_all(_, _)

\* for (const auto& stmt : body) collect_symbols(stmt.get());
collect_symbols_all(nodes, st) ==
    IF nodes = <<>> THEN st
    ELSE collect_symbols_all(Tail(nodes), collect_symbols(Head(nodes), st))

\* collect_symbols without the FuncCallNode branch (a variant).
collect_symbols_no_call(node, st) ==
    IF node.type = "Assign"
    THEN collect_symbols(node.expr, get_cpp_var(st, node.var_name).st)
    ELSE IF node.type = "Print" THEN collect_symbols(node.expr, st)
    ELSE IF node.type \in {"If", "While"}
    THEN collect_symbols_all(node.body, collect_symbols(node.condition, st))
    ELSE IF node.type = "FuncDef"
    THEN collect_symbols_all(node.body, get_cpp_func(st, node.name).st)
    ELSE IF node.type = "Return" THEN collect_symbols(node.expr, st)
    ELSE IF node.type = "BinaryOp"
    THEN collect_symbols(node.right, collect_symbols(node.left, st))
    ELSE IF node.type = "Variable" THEN get_cpp_var(st, node.name).st
    ELSE st

\* The namer after collect_symbols(node).
collect_symbols(node, st) ==
    IF node.type = "Assign"
    THEN collect_symbols(node.expr, get_cpp_var(st, node.var_name).st)
    ELSE IF node.type = "Print" THEN collect_symbols(node.expr, st)
    ELSE IF node.type \in {"If", "While"}
    THEN collect_symbols_all(node.body, collect_symbols(node.condition, st))
    ELSE IF node.type = "FuncDef"
    THEN collect_symbols_all(node.body, get_cpp_func(st, node.name).st)
    ELSE IF node.type = "FuncCall" THEN get_cpp_func(st, node.name).st
    ELSE IF node.type = "Return" THEN collect_symbols(node.expr, st)
    ELSE IF node.type = "BinaryOp"
    THEN collect_symbols(node.right, collect_symbols(node.left, st))
    ELSE IF node.type = "Variable" THEN get_cpp_var(st, node.name).st
    ELSE st

(***************************************************************************)
(* ASTNode::generate.  The result is the text and the namer left behind.   *)
(* Operands are generated left to right; C++ leaves the order of the       *)
(* operands of + open, but the set of names looked up is the same in       *)
(* every order.                                                            *)
(***************************************************************************)
Gen(text, st) == [text |-> text, st |-> st]

RECURSIVE generate(_, _)
RECURSIVE generate_body(_, _, _)

\* for (const auto& stmt : body) ss << indent << stmt->generate() << "\n";
generate_body(body, st, indent) ==
    IF body = <<>> THEN Gen(<<>>, st)
    ELSE LET g == generate(Head(body), st)
             rest == generate_body(Tail(body), g.st, indent)
         IN  Gen(indent \o g.text \o <<"\n">> \o rest.text, rest.st)

generate(node, st) ==
    IF node.type = "Number"
    THEN Gen(<<"MolObject(", TextOf(node.value), ")">>, st)
    ELSE IF node.type = "String"
    THEN Gen(<<"MolObject(std::string(\"", TextOf(node.value), "\"))">>, st)
    ELSE IF node.type = "Variable"
    THEN LET v == get_cpp_var(st, node.name) IN Gen(<<v.ret>>, v.st)
    ELSE IF node.type = "Input" THEN Gen(<<"mollang_input()">>, st)
    ELSE IF node.type = "BinaryOp"
    THEN LET l == generate(node.left, st)
             r == generate(node.right, l.st)
         IN  Gen(<<"(">> \o l.text \o <<" ", node.op, " ">> \o r.text \o <<")">>,
                 r.st)
    ELSE IF node.type = "Assign"
    THEN LET v == get_cpp_var(st, node.var_name)
             e == generate(node.expr, v.st)
         IN  Gen(<<v.ret, " = ">> \o e.text \o <<";">>, e.st)
    ELSE IF node.type = "Print"
    THEN LET e == generate(node.expr, st)
         IN  Gen(<<"mollang_print(">> \o e.text \o <<");">>, e.st)
    ELSE IF node.type \in {"If", "While"}
    THEN LET c == generate(node.condition, st)
             b == generate_body(node.body, c.st, <<"    ">>)
             head == IF node.type = "If" THEN "if (std::get<bool>("
                     ELSE "while (std::get<bool>("
         IN  Gen(<<head>> \o c.text \o <<".value)) {\n">> \o b.text \o <<"}">>,
                 b.st)
    ELSE IF node.type = "FuncDef"
    THEN LET f == get_cpp_func(st, node.name)
             b == generate_body(node.body, f.st, <<>>)
         IN  Gen(<<"MolObject ", f.ret, "() {\n">> \o b.text
                     \o <<"return MolObject();\n", "}">>, b.st)
    ELSE IF node.type = "FuncCall"
    THEN LET f == get_cpp_func(st, node.name) IN Gen(<<f.ret, "();">>, f.st)
    ELSE \* "Return"
         LET e == generate(node.expr, st)
         IN  Gen(<<"return ">> \o e.text \o <<";">>, e.st)

(***************************************************************************)
(* generate_cpp_code                                                       *)
(***************************************************************************)
\* The raw string literal of lines 424-511: the includes, MolObject, its
\* operators, mollang_print and mollang_input.  It is one operand, the same
\* in every output.
Preamble == "#include <iostream> ... MolObject mollang_input() { ... }\n"

\* std::string's operator<: the bytes compared as unsigned values
RECURSIVE string_less(_, _)
string_less(a, b) ==
    IF b = <<>> THEN FALSE
    ELSE IF a = <<>> THEN TRUE
    ELSE IF Head(a) # Head(b) THEN Head(a) < Head(b)
    ELSE string_less(Tail(a), Tail(b))

\* the keys of a std::map in the order its iteration visits them
RECURSIVE map_keys(_)
map_keys(K) ==
    IF K = {} THEN <<>>
    ELSE LET k == CHOOSE x \in K : \A y \in K \ {x} : string_less(x, y)
         IN  <<k>> \o map_keys(K \ {k})

\* for (const auto& pair : m) ss << "MolObject " << pair.second << tail;
RECURSIVE declarations(_, _, _)
declarations(m, keys, tail) ==
    IF keys = <<>> THEN <<>>
    ELSE <<"MolObject ", m[Head(keys)], tail>> \o declarations(m, Tail(keys), tail)

\* the loop over the FuncDef nodes of the top level
RECURSIVE function_definitions(_, _)
function_definitions(nodes, st) ==
    IF nodes = <<>> THEN Gen(<<>>, st)
    ELSE IF Head(nodes).type = "FuncDef"
    THEN LET g == generate(Head(nodes), st)
             rest == function_definitions(Tail(nodes), g.st)
         IN  Gen(g.text \o <<"\n\n">> \o rest.text, rest.st)
    ELSE function_definitions(Tail(nodes), st)

\* the loop over the other nodes of the top level, inside main
RECURSIVE main_statements(_, _)
main_statements(nodes, st) ==
    IF nodes = <<>> THEN Gen(<<>>, st)
    ELSE IF Head(nodes).type # "FuncDef"
    THEN LET g == generate(Head(nodes), st)
             rest == main_statements(Tail(nodes), g.st)
         IN  Gen(<<"    ">> \o g.text \o <<"\n">> \o rest.text, rest.st)
    ELSE main_statements(Tail(nodes), st)

generate_cpp_code(nodes, st) ==
    LET protos == declarations(st.function_map,
                               map_keys(DOMAIN st.function_map), "();\n")
        globals == declarations(st.variable_map,
                                map_keys(DOMAIN st.variable_map), ";\n")
        defs == function_definitions(nodes, st)
        body == main_statements(nodes, defs.st)
    IN  Gen(<<Preamble>> \o protos \o <<"\n">> \o globals \o <<"\n">>
                \o defs.text
                \o <<"int main() {\n">> \o body.text
                \o <<"    return 0;\n", "}\n">>,
            body.st)

(***************************************************************************)
(* Initial values of the variables a specification does not use.           *)
(***************************************************************************)
NoFile == [written |-> FALSE, content |-> ""]

\* the globals as their definitions at lines 110-113 initialise them
InitGlobals ==
    /\ variable_map = <<>>
    /\ var_counter = 0
    /\ function_map = <<>>
    /\ func_counter = 0

InitLocals ==
    /\ tokens = <<>>
    /\ parser_pos = 0
    /\ ast = <<>>
    /\ calls = <<>>
    /\ cpp_code = <<>>
    /\ exc = NoException
    /\ cpp_file = NoFile
    /\ cerr = <<>>
    /\ exit_status = 0

IdleRest ==
    /\ InitGlobals
    /\ mollang_code = <<>>
    /\ InitLocals

(***************************************************************************)
(* translate_to_cpp, one action per statement of its body.                 *)
(***************************************************************************)
\* translate_to_cpp's first four statements with the counters left as they
\* are (a variant of the reset).
reset_state_keep_counters(st) ==
    [st EXCEPT !.variable_map = <<>>, !.function_map = <<>>]

\* variable_map.clear(); var_counter = 0; function_map.clear(); func_counter = 0;
reset_state(st) == ResetNamer

Reset ==
    /\ pc = "reset"
    /\ SetNamer(reset_state(Namer))
    /\ pc' = "tokenize"
    /\ UNCHANGED <<frontVars, mollang_code, tokens, parser_pos, ast, calls, cpp_code, exc, cpp_file,
                   cerr, exit_status, arg, ret>>

\* auto tokens = tokenize(mollang_code);
Tokenize ==
    /\ pc = "tokenize"
    /\ LET r == tokenize(mollang_code) IN
       IF r.ok
       THEN tokens' = r.tokens /\ pc' = "parse" /\ UNCHANGED exc
       ELSE exc' = r.exc /\ pc' = "thrown" /\ UNCHANGED tokens
    /\ UNCHANGED <<frontVars, variable_map, var_counter, function_map, func_counter,
                   mollang_code, parser_pos, ast, calls, cpp_code, cpp_file, cerr,
                   exit_status, arg, ret>>

\* Parser parser(std::move(tokens)); auto ast = parser.parse();
Parse ==
    /\ pc = "parse"
    /\ LET r == parse(tokens) IN
       /\ calls' = r.log
       /\ parser_pos' = r.pos
       /\ IF r.ok
          THEN ast' = r.val /\ pc' = "collect" /\ UNCHANGED exc
          ELSE exc' = r.exc /\ pc' = "thrown" /\ UNCHANGED ast
    /\ UNCHANGED <<frontVars, variable_map, var_counter, function_map, func_counter,
                   mollang_code, tokens, cpp_code, cpp_file, cerr,
                   exit_status, arg, ret>>

\* for (const auto& node : ast) collect_symbols(node.get());
Collect ==
    /\ pc = "collect"
    /\ SetNamer(collect_symbols_all(ast, Namer))
    /\ pc' = "generate"
    /\ UNCHANGED <<frontVars, mollang_code, tokens, parser_pos, ast, calls, cpp_code, exc, cpp_file,
                   cerr, exit_status, arg, ret>>

\* return generate_cpp_code(ast);
Generate ==
    /\ pc = "generate"
    /\ LET g == generate_cpp_code(ast, Namer) IN
       /\ cpp_code' = g.text
       /\ SetNamer(g.st)
    /\ pc' = "returned"
    /\ UNCHANGED <<frontVars, mollang_code, tokens, parser_pos, ast, calls, exc, cpp_file, cerr,
                   exit_status, arg, ret>>

Translate == Reset \/ Tokenize \/ Parse \/ Collect \/ Generate

(***************************************************************************)
(* Source texts: up to n fragments of V with one space between them.       *)
(***************************************************************************)
RECURSIVE Joined(_, _)
Joined(V, n) ==
    IF n = 0 THEN {<<>>}
    ELSE LET S == Joined(V, n - 1)
         IN  S \cup {IF s = <<>> THEN f ELSE s \o <<32>> \o f : s \in S, f \in V}

F_call == KW_camp \o <<49>>                                   \* 캠프1

\* 밥 은 1 덧셈 바압
F_assign == G_bap \o <<32>> \o KW_eun \o <<32, 49, 32>> \o KW_deotsem
                \o <<32>> \o G_ba \o G_ap

F_print == KW_scrum \o <<32>> \o G_bap                        \* 스크럼 밥

F_def == F_call \o <<32, 91>>                                 \* 캠프1 [

F_def2 == KW_camp \o <<50, 32, 91, 32, 93>>                   \* 캠프2 [ ]

F_close == <<93>>                                             \* ]

F_if == KW_ip \o <<32, 49, 32, 91>>                           \* 입 1 [

\* 몰 바아압 작 "a" [
F_while == KW_mol \o <<32>> \o G_ba \o G_a \o G_ap \o <<32>> \o KW_jak
               \o <<32, 34, 97, 34, 32, 91>>

F_novalue == G_bap \o <<32, 49>>                              \* 밥 1

F_return == KW_toegeun \o <<32>> \o KW_mwomeok                \* 퇴근 뭐먹

F_big == <<50, 49, 52, 55, 52, 56, 51, 54, 52, 56>>           \* 2147483648

(***************************************************************************)
(* main                                                                    *)
(***************************************************************************)
M_usage == <<236, 130, 172, 236, 154, 169, 235, 178, 149, 58, 32>>

M_usage_tail ==
    <<32, 60, 236, 158, 133, 235, 160, 165, 95, 237, 140, 140, 236, 157, 188,
      46, 109, 111, 108, 62>>

M_extension ==
    <<236, 152, 164, 235, 165, 152, 58, 32, 236, 158, 133, 235, 160, 165, 32,
      237, 140, 140, 236, 157, 188, 236, 157, 128, 32, 39, 46, 109, 111, 108,
      39, 32, 237, 153, 149, 236, 158, 165, 236, 158, 144, 236, 151, 172, 236,
      149, 188, 32, 237, 149, 169, 235, 139, 136, 235, 139, 164, 46>>

M_error_quote == <<236, 152, 164, 235, 165, 152, 58, 32, 39>>

M_cannot_open ==
    <<39, 32, 237, 140, 140, 236, 157, 188, 236, 157, 132, 32, 236, 151, 180,
      32, 236, 136, 152, 32, 236, 151, 134, 236, 138, 181, 235, 139, 136, 235,
      139, 164, 46>>

M_cannot_create ==
    <<39, 32, 237, 140, 140, 236, 157, 188, 236, 157, 132, 32, 236, 131, 157,
      236, 132, 177, 237, 149, 160, 32, 236, 136, 152, 32, 236, 151, 134, 236,
      138, 181, 235, 139, 136, 235, 139, 164, 46>>

M_error == <<236, 152, 164, 235, 165, 152, 58, 32>>

M_compile_failed ==
    <<236, 187, 180, 237, 140, 140, 236, 157, 188, 32, 236, 152, 164, 235,
      165, 152, 234, 176, 128, 32, 235, 176, 156, 236, 131, 157, 237, 150,
      136, 236, 138, 181, 235, 139, 136, 235, 139, 164, 46>>

\* argv as main sees it, and whether the input file can be opened
Invocation(argc, input_filename, opens) ==
    [argc |-> argc, argv0 |-> <<46, 47, 99, 111, 109, 112, 105, 108, 101, 114>>,
     input_filename |-> input_filename, opens |-> opens]

\* ./compiler a.mol, with a.mol readable
GoodInvocation == Invocation(2, <<97, 46, 109, 111, 108>>, TRUE)

\* no argument; a.txt; .mol; a.mol that cannot be opened
BadInvocations ==
    {Invocation(1, <<>>, TRUE),
     Invocation(2, <<97, 46, 116, 120, 116>>, TRUE),
     Invocation(2, <<46, 109, 111, 108>>, TRUE),
     Invocation(2, <<97, 46, 109, 111, 108>>, FALSE)}

\* main up to the call of translate_to_cpp
MainStart ==
    /\ pc = "main"
    /\ IF arg.argc # 2
       THEN /\ cerr' = <<TextOf(M_usage), TextOf(arg.argv0),
                         TextOf(M_usage_tail), "\n">>
            /\ exit_status' = 1 /\ pc' = "exited"
       ELSE IF \/ Len(arg.input_filename) <= 4
               \/ substr(arg.input_filename, Len(arg.input_filename) - 4, 4)
                      # <<46, 109, 111, 108>>
       THEN /\ cerr' = <<TextOf(M_extension), "\n">>
            /\ exit_status' = 1 /\ pc' = "exited"
       ELSE IF ~arg.opens
       THEN /\ cerr' = <<TextOf(M_error_quote), TextOf(arg.input_filename),
                         TextOf(M_cannot_open), "\n">>
            /\ exit_status' = 1 /\ pc' = "exited"
       ELSE pc' = "reset" /\ UNCHANGED <<cerr, exit_status>>
    /\ UNCHANGED <<frontVars, variable_map, var_counter, function_map, func_counter,
                   mollang_code, tokens, parser_pos, ast, calls, cpp_code, exc, cpp_file,
                   arg, ret>>

\* the handler with the status of a normal exit (a variant of the catch block)
main_catch_status_zero(e) ==
    [cerr |-> <<TextOf(M_error), Flatten(e.what), "\n">>, status |-> 0]

\* catch (const std::exception& e) { std::cerr << "오류: " << e.what() << std::endl; return 1; }
main_catch(e) ==
    [cerr |-> <<TextOf(M_error), Flatten(e.what), "\n">>, status |-> 1]

MainCatch ==
    /\ pc = "thrown"
    /\ cerr' = main_catch(exc).cerr
    /\ exit_status' = main_catch(exc).status
    /\ pc' = "exited"
    /\ UNCHANGED <<frontVars, variable_map, var_counter, function_map, func_counter,
                   mollang_code, tokens, parser_pos, ast, calls, cpp_code, exc, cpp_file,
                   arg, ret>>

\* main after translate_to_cpp returned: the file is written, when it can be
\* created, and the toolchain is run; what goes to std::cout is left out.
MainWrite ==
    /\ pc = "returned"
    /\ \E created \in BOOLEAN, result \in {0, 1} :
           IF ~created
           THEN /\ cerr' = <<TextOf(M_error_quote),
                             TextOf(<<97, 46, 99, 112, 112>>),
                             TextOf(M_cannot_create), "\n">>
                /\ exit_status' = 1
                /\ UNCHANGED cpp_file
           ELSE /\ cpp_file' = [written |-> TRUE, content |-> Flatten(cpp_code)]
                /\ cerr' = IF result = 0 THEN <<>>
                           ELSE <<TextOf(M_compile_failed), "\n">>
                /\ exit_status' = 0
    /\ pc' = "exited"
    /\ UNCHANGED <<frontVars, variable_map, var_counter, function_map, func_counter,
                   mollang_code, tokens, parser_pos, ast, calls, cpp_code, exc, arg, ret>>

(***************************************************************************)
(* Spec: one run of the compiler, on any of the source texts.              *)
(***************************************************************************)
StmtFragments ==
    {F_assign, F_print, F_call, F_def, F_def2, F_close, F_if, F_while,
     F_novalue, F_return, F_big}

Programs == Joined(StmtFragments, MaxFragments)

Init ==
    /\ pc = "main"
    /\ \/ arg = GoodInvocation /\ mollang_code \in Programs
       \/ arg \in BadInvocations /\ mollang_code = <<>>
    /\ ret = FALSE
    /\ InitGlobals
    /\ InitLocals
    /\ FrontIdle

Next == MainStart \/ Translate \/ MainCatch \/ MainWrite

Spec == Init /\ [][Next]_vars

\* the names the namer can generate for i = 0..n
AllNames(n) ==
    {"var_" \o to_string(i) : i \in 0..n} \cup {"func_" \o to_string(i) : i \in 0..n}

\* the places of cpp_code where a generated name is declared: the forward
\* declarations and the global declarations
DeclaredAt ==
    {i \in 2..(Len(cpp_code) - 1) :
        cpp_code[i - 1] = "MolObject " /\ cpp_code[i + 1] \in {"();\n", ";\n"}}

\* the places of cpp_code where a function body or main uses a generated name
\* (an operand that follows "MolObject(" or the opening of a string literal is
\* source text, not a name)
UsedAt ==
    {i \in 2..(Len(cpp_code) - 1) :
        /\ cpp_code[i] \in AllNames(Len(cpp_code))
        /\ cpp_code[i - 1] \notin {"MolObject(", "MolObject(std::string(\""}
        /\ cpp_code[i + 1] \notin {"();\n", ";\n"}}

EveryUseDeclaredBefore ==
    \A i \in UsedAt : \E j \in DeclaredAt : j < i /\ cpp_code[j] = cpp_code[i]

\* C3: once collect_symbols has run over all top-level nodes,
\* generate_cpp_code registers no new name (both maps and both counters are
\* the same before and after emission), and every var_N and func_N used in
\* a function body or in main is declared in the block emitted before them.
C3_EmissionRegistersNothing ==
    ([](pc = "returned" => EveryUseDeclaredBefore))
        /\ [][pc = "generate" => Namer' = Namer]_vars

\* 캠프1 is called before it is defined, and the text has been emitted.
C3_Witness ==
    /\ pc = "returned"
    /\ mollang_code = F_call \o <<32>> \o F_def \o <<32>> \o F_close
    /\ UsedAt # {}
    /\ func_counter = 1

\* C4: when tokenizing or parsing raises an error, translate_to_cpp returns
\* no text, no statement is parsed after the failure, no AST is kept and
\* nothing is registered; main writes no generated file, reports the
\* message and exits with a non-zero status.
C4_FailureLeavesNoOutput ==
    exc.kind # "none" =>
        /\ pc \in {"thrown", "exited"}
        /\ cpp_code = <<>>
        /\ ast = <<>>
        /\ Namer = ResetNamer
        /\ \A k \in 1..Len(calls) : calls[k].to <= parser_pos
        /\ ~cpp_file.written
        /\ pc = "exited" =>
               /\ exit_status # 0
               /\ cerr = <<TextOf(M_error), Flatten(exc.what), "\n">>

\* main has exited with status 1 after a parse error that was raised behind
\* a statement already parsed and ahead of tokens never looked at.
C4_Witness ==
    /\ pc = "exited"
    /\ exit_status = 1
    /\ exc.kind = "runtime_error"
    /\ Len(calls) >= 1
    /\ parser_pos + 1 < Len(tokens)
    /\ ~cpp_file.written

\* the FuncDef nodes of a list of statements, in the order a walk of the AST
\* meets them
RECURSIVE FuncDefNames(_)
RECURSIVE FuncDefNamesOf(_)
FuncDefNames(nodes) ==
    IF nodes = <<>> THEN <<>>
    ELSE FuncDefNamesOf(Head(nodes)) \o FuncDefNames(Tail(nodes))

FuncDefNamesOf(node) ==
    IF node.type = "FuncDef" THEN <<node.name>> \o FuncDefNames(node.body)
    ELSE IF node.type \in {"If", "While"} THEN FuncDefNames(node.body)
    ELSE <<>>

\* the places of cpp_code where a function body opens, in order
RECURSIVE BodiesFrom(_)
BodiesFrom(i) ==
    IF i > Len(cpp_code) THEN <<>>
    ELSE IF cpp_code[i] = "() {\n" THEN <<i>> \o BodiesFrom(i + 1)
    ELSE BodiesFrom(i + 1)

MainAt == CHOOSE i \in 1..Len(cpp_code) : cpp_code[i] = "int main() {\n"

RECURSIVE NotFuncDefs(_)
NotFuncDefs(nodes) ==
    IF nodes = <<>> THEN <<>>
    ELSE IF Head(nodes).type = "FuncDef" THEN NotFuncDefs(Tail(nodes))
    ELSE <<Head(nodes)>> \o NotFuncDefs(Tail(nodes))

\* C7: every FuncDef node, wherever it occurs, yields exactly one function
\* body, in the section before main and in AST encounter order; no body is
\* emitted inside main or inside another body; and main holds exactly the
\* top-level statements that are not FuncDefs, in source order.
C7_FunctionBodiesBeforeMain ==
    pc = "returned" =>
        LET bodies == BodiesFrom(1)
            names == FuncDefNames(ast)
        IN  /\ Len(bodies) = Len(names)
            /\ \A k \in 1..Len(bodies) :
                   /\ bodies[k] < MainAt
                   /\ cpp_code[bodies[k] - 1] = function_map[names[k]]
                   /\ k > 1 => \E j \in (bodies[k - 1] + 1)..(bodies[k] - 1) :
                                   cpp_code[j] = "return MolObject();\n"
            /\ SubSeq(cpp_code, MainAt, Len(cpp_code))
                   = <<"int main() {\n">>
                         \o main_statements(NotFuncDefs(ast), Namer).text
                         \o <<"    return 0;\n", "}\n">>

\* the token positions where parse_statement was entered: the start of the
\* text and the end of every statement that returned
StatementStarts == {0} \cup {calls[k].to : k \in 1..Len(calls)}

\* C10: parse_statement builds an Assign node only from a variable-name
\* token followed by the keyword "eun"; when any other token follows a
\* variable-name token at statement start, the parse fails.
C10_AssignNeedsAssignKeyword ==
    pc \in {"collect", "thrown"} =>
        /\ \A k \in 1..Len(calls) :
               calls[k].type = "Assign" =>
                   /\ is_variable(tokens[calls[k].from + 1].value)
                   /\ tokens[calls[k].from + 2].value = KW_eun
        /\ \A p \in StatementStarts :
               (/\ p + 2 <= Len(tokens)
                /\ is_variable(tokens[p + 1].value)
                /\ tokens[p + 2].value # KW_eun) => pc = "thrown"

(***************************************************************************)
(* SpecRepeat: translate_to_cpp called again and again in one process.     *)
(***************************************************************************)
\* the source texts of the calls
RepeatPrograms == Joined(StmtFragments, MaxRepeatFragments)

InitRepeat ==
    /\ pc = "idle"
    /\ arg = 0
    /\ ret = ResetNamer
    /\ mollang_code = <<>>
    /\ InitGlobals
    /\ InitLocals
    /\ FrontIdle

\* the caller calls translate_to_cpp(src); ret keeps the globals as the
\* call finds them
Call(src) ==
    /\ pc = "idle"
    /\ mollang_code' = src
    /\ pc' = "reset"
    /\ ret' = Namer
    /\ UNCHANGED <<frontVars, variable_map, var_counter, function_map, func_counter,
                   tokens, parser_pos, ast, calls, cpp_code, exc, cpp_file,
                   cerr, exit_status, arg>>

\* the caller is done with the result, or has caught the exception; the
\* locals of the call are gone and the globals stay
Finish ==
    /\ pc \in {"returned", "thrown"}
    /\ pc' = "idle"
    /\ mollang_code' = <<>>
    /\ tokens' = <<>>
    /\ parser_pos' = 0
    /\ ast' = <<>>
    /\ calls' = <<>>
    /\ cpp_code' = <<>>
    /\ exc' = NoException
    /\ UNCHANGED <<frontVars, variable_map, var_counter, function_map, func_counter,
                   cpp_file, cerr, exit_status, arg, ret>>

NextRepeat == (\E src \in RepeatPrograms : Call(src)) \/ Translate \/ Finish

SpecRepeat == InitRepeat /\ [][NextRepeat]_vars

\* translate_to_cpp as one function of the source text and the globals it
\* finds: what it returns or throws
translate_to_cpp(code, st) ==
    LET t == tokenize(code) IN
    IF ~t.ok THEN [ok |-> FALSE, text |-> "", exc |-> t.exc]
    ELSE LET p == parse(t.tokens) IN
    IF ~p.ok THEN [ok |-> FALSE, text |-> "", exc |-> p.exc]
    ELSE LET collected == collect_symbols_all(p.val, reset_state(st))
         IN  [ok |-> TRUE,
              text |-> Flatten(generate_cpp_code(p.val, collected).text),
              exc |-> NoException]

\* the first call of a fresh process
FirstCall(code) ==
    translate_to_cpp(code, [variable_map |-> <<>>, var_counter |-> 0,
                            function_map |-> <<>>, func_counter |-> 0])

\* C1: whatever calls came before it in the process, also calls that ended
\* in an error, a call of translate_to_cpp returns the text, or raises the
\* error, that the same source text gives as the first call of a fresh
\* process; and both maps are empty and both counters 0 when its first name
\* is registered.
C1_ResultDependsOnlyOnSource ==
    /\ pc = "returned" =>
           /\ FirstCall(mollang_code).ok
           /\ Flatten(cpp_code) = FirstCall(mollang_code).text
    /\ pc = "thrown" =>
           /\ ~FirstCall(mollang_code).ok
           /\ exc = FirstCall(mollang_code).exc
    /\ pc = "collect" => Namer = ResetNamer

\* A call that found two variables and a function left behind by earlier
\* calls has returned, and "밥" has the name var_0 again.
C1_Witness ==
    /\ pc = "returned"
    /\ mollang_code = F_print
    /\ ret.var_counter = 2
    /\ ret.func_counter = 1
    /\ variable_map = (G_bap :> "var_0")

(***************************************************************************)
(* SpecExpr: parse_expression applied to t0 op1 t1 ... opn tn, and the     *)
(* tree it returns emitted.                                                *)
(***************************************************************************)
\* the simple terms: the tokens of 1, 밥, "a" and 뭐먹
ExprTerms ==
    {Token("NUMBER", <<49>>), Token("IDENTIFIER", G_bap),
     Token("STRING", <<97>>), Token("KEYWORD", KW_mwomeok)}

\* the binary-operator keywords
ExprOps ==
    {KW_deotsem, KW_hap, KW_deohagi, KW_gopsem, KW_gop, KW_gat, KW_jak,
     KW_gatjak, KW_jakgat}

\* the tokens of t0 op1 t1 ... opn tn
RECURSIVE ExprTokens(_, _, _)
ExprTokens(terms, ops, n) ==
    IF n = 0 THEN <<terms[1]>>
    ELSE ExprTokens(terms, ops, n - 1)
             \o <<Token("KEYWORD", ops[n]), terms[n + 1]>>

InitExpr ==
    /\ pc = "call"
    /\ \E n \in 0..MaxOps :
           arg \in [terms : [1..(n + 1) -> ExprTerms], ops : [1..n -> ExprOps]]
    /\ ret = [ok |-> FALSE, val |-> <<>>, text |-> <<>>]
    /\ IdleRest
    /\ FrontIdle

\* parse_expression at the first token of the expression followed by END_OF_FILE,
\* then the names of the tree collected and the tree generated
CallParseExpression ==
    /\ pc = "call"
    /\ LET toks == ExprTokens(arg.terms, arg.ops, Len(arg.ops))
                       \o <<Token("END_OF_FILE", <<>>)>>
           e == parse_expression(toks, 0)
       IN  IF e.ok
           THEN ret' = [ok |-> TRUE, val |-> e.val,
                        text |-> generate(e.val,
                                          collect_symbols(e.val, ResetNamer)).text]
           ELSE ret' = [ok |-> FALSE, val |-> <<>>, text |-> e.exc.what]
    /\ pc' = "done"
    /\ UNCHANGED <<frontVars, variable_map, var_counter, function_map, func_counter,
                   mollang_code, tokens, parser_pos, ast, calls, cpp_code, exc,
                   cpp_file, cerr, exit_status, arg>>

NextExpr == CallParseExpression

SpecExpr == InitExpr /\ [][NextExpr]_vars

\* the operator symbol of an operator keyword
OpSymbol(k) ==
    IF k \in {KW_deotsem, KW_hap, KW_deohagi} THEN "+"
    ELSE IF k \in {KW_gopsem, KW_gop} THEN "*"
    ELSE IF k = KW_gat THEN "=="
    ELSE IF k = KW_jak THEN "<"
    ELSE "<="

\* the node of a simple term
TermNode(t) ==
    IF t.type = "NUMBER" THEN [type |-> "Number", value |-> t.value]
    ELSE IF t.type = "IDENTIFIER" THEN [type |-> "Variable", name |-> t.value]
    ELSE IF t.type = "STRING" THEN [type |-> "String", value |-> t.value]
    ELSE [type |-> "Input"]

\* the text of a simple term; "밥" is the only variable, so it is var_0
TermEmitted(t) ==
    IF t.type = "NUMBER" THEN "MolObject(1)"
    ELSE IF t.type = "IDENTIFIER" THEN "var_0"
    ELSE IF t.type = "STRING" THEN "MolObject(std::string(\"a\"))"
    ELSE "mollang_input()"

\* the tree nested entirely to the left over the first n operators
RECURSIVE LeftTree(_, _, _)
LeftTree(terms, ops, n) ==
    IF n = 0 THEN TermNode(terms[1])
    ELSE [type |-> "BinaryOp", left |-> LeftTree(terms, ops, n - 1),
          op |-> OpSymbol(ops[n]), right |-> TermNode(terms[n + 1])]

\* (...((t0 op1 t1) op2 t2)... opn tn)
RECURSIVE LeftEmitted(_, _, _)
LeftEmitted(terms, ops, n) ==
    IF n = 0 THEN TermEmitted(terms[1])
    ELSE "(" \o LeftEmitted(terms, ops, n - 1) \o " " \o OpSymbol(ops[n])
             \o " " \o TermEmitted(terms[n + 1]) \o ")"

\* C5: for every expression t0 op1 t1 ... opn tn of simple terms and
\* binary-operator keywords, parse_expression returns the BinaryOp tree
\* nested entirely to the left, whatever the operators are, and it is
\* emitted as (...((t0 op1 t1) op2 t2)... opn tn).
C5_ExpressionsNestLeft ==
    pc = "done" =>
        /\ ret.ok
        /\ ret.val = LeftTree(arg.terms, arg.ops, Len(arg.ops))
        /\ Flatten(ret.text) = LeftEmitted(arg.terms, arg.ops, Len(arg.ops))

\* 1 덧셈 밥 곱셈 1 has been parsed and emitted as ((1 + 밥) * 1).
C5_Witness ==
    /\ pc = "done"
    /\ arg.terms = <<Token("NUMBER", <<49>>), Token("IDENTIFIER", G_bap),
                     Token("NUMBER", <<49>>)>>
    /\ arg.ops = <<KW_deotsem, KW_gopsem>>
    /\ Flatten(ret.text) = "((MolObject(1) + var_0) * MolObject(1))"

(***************************************************************************)
(* SpecVar: is_variable applied to a word.                                 *)
(***************************************************************************)
VarPieces == {G_bap, G_ba, G_a, G_ap, <<236>>, <<149>>, <<132>>, <<49>>}

VarWords == Concats(VarPieces, MaxVarPieces)

InitVar ==
    /\ pc = "call"
    /\ arg \in VarWords
    /\ ret = FALSE
    /\ IdleRest
    /\ FrontIdle

CallIsVariable ==
    /\ pc = "call"
    /\ ret' = is_variable(arg)
    /\ pc' = "done"
    /\ UNCHANGED <<frontVars, variable_map, var_counter, function_map, func_counter,
                   mollang_code, tokens, parser_pos, ast, calls, cpp_code, exc, cpp_file,
                   cerr, exit_status, arg>>

NextVar == CallIsVariable

SpecVar == InitVar /\ [][NextVar]_vars

\* n copies of the byte string g, one after the other
RECURSIVE Rep(_, _)
Rep(g, n) == IF n = 0 THEN <<>> ELSE g \o Rep(g, n - 1)

\* the variable-name pattern of the claim
IsVarShape(w) ==
    \/ w = G_bap
    \/ \E k \in 0..Len(w) : w = G_ba \o Rep(G_a, k) \o G_ap

\* C9: for every byte string w, is_variable(w) is true exactly when w is the
\* glyph "bap" alone, or the glyph "ba", then any number of glyphs "a", then
\* the glyph "ap"; so it is false for every word whose length is not a
\* multiple of 3 bytes.
C9_IsVariableIffShape ==
    pc = "done" =>
        /\ ret = IsVarShape(arg)
        /\ (Len(arg) % 3 # 0 => ret = FALSE)

\* is_variable has returned for a 7-byte word whose last 3-byte chunk of the
\* loop straddles the suffix, and for a word with two fillers.
C9_Witness ==
    /\ pc = "done"
    /\ \/ arg = G_ba \o <<236>> \o G_ap /\ ret = FALSE
       \/ arg = G_ba \o G_a \o G_a \o G_ap /\ ret = TRUE

(***************************************************************************)
(* SpecLex: tokenize applied to a source text.                             *)
(***************************************************************************)
\* space, '[', ']', '"', '\'', '1', 'a', '-', "밥", "은", "캠프",
\* "2147483647" and "2147483648"
LexPieces ==
    {<<32>>, <<91>>, <<93>>, <<34>>, <<39>>, <<49>>, <<97>>, <<45>>,
     G_bap, KW_eun, KW_camp,
     <<50, 49, 52, 55, 52, 56, 51, 54, 52, 55>>,
     <<50, 49, 52, 55, 52, 56, 51, 54, 52, 56>>}

LexTexts == Concats(LexPieces, MaxLexPieces)

InitLex ==
    /\ pc = "call"
    /\ arg \in LexTexts
    /\ ret = [ok |-> TRUE, tokens |-> <<>>, exc |-> NoException]
    /\ IdleRest
    /\ FrontIdle

CallTokenize ==
    /\ pc = "call"
    /\ ret' = tokenize(arg)
    /\ pc' = "done"
    /\ UNCHANGED <<frontVars, variable_map, var_counter, function_map, func_counter,
                   mollang_code, tokens, parser_pos, ast, calls, cpp_code, exc, cpp_file,
                   cerr, exit_status, arg>>

NextLex == CallTokenize

SpecLex == InitLex /\ [][NextLex]_vars

\* C6: for every source text, tokenize returns without raising an error, and
\* what it returns holds exactly one END token, as its last element.
C6_TokenizeNeverRaises ==
    pc = "done" =>
        /\ ret.ok
        /\ Len(ret.tokens) >= 1
        /\ \A k \in 1..Len(ret.tokens) :
               (ret.tokens[k].type = "END_OF_FILE") <=> (k = Len(ret.tokens))

\* an integer literal in base 10: an optional sign, then digits only
IsIntegerLiteral(w) ==
    LET body == IF w # <<>> /\ w[1] \in {43, 45} THEN Tail(w) ELSE w
    IN  body # <<>> /\ \A k \in 1..Len(body) : isdigit(body[k])

\* the class the claim gives a candidate word
WordClass(w) ==
    IF w \in Keywords THEN "KEYWORD"
    ELSE IF IsVarShape(w) THEN "IDENTIFIER"
    ELSE IF IsIntegerLiteral(w) THEN "NUMBER"
    ELSE "IDENTIFIER"

\* C8: every token tokenize makes of a candidate word has the class that the
\* priority order keyword, variable name, whole-word integer literal,
\* identifier gives it; so a word that only begins with digits is an
\* IDENTIFIER and the text of every NUMBER token is an integer literal.
C8_WordClassification ==
    (pc = "done" /\ ret.ok) =>
        \A k \in 1..Len(ret.tokens) :
            LET t == ret.tokens[k] IN
            /\ t.type \in {"KEYWORD", "IDENTIFIER", "NUMBER"}
                   => t.type = WordClass(t.value)
            /\ t.type = "NUMBER" => IsIntegerLiteral(t.value)

(***************************************************************************)
(* SpecNamer: get_cpp_var and get_cpp_func called in any order after a     *)
(* reset.                                                                  *)
(***************************************************************************)
\* "바압", "바아압", ... : MaxNames source names, used for both kinds
NamerNames == {G_ba \o Rep(G_a, k) \o G_ap : k \in 0..(MaxNames - 1)}

InitNamer ==
    /\ pc = "reset"
    /\ variable_map = ResetNamer.variable_map
    /\ var_counter = ResetNamer.var_counter
    /\ function_map = ResetNamer.function_map
    /\ func_counter = ResetNamer.func_counter
    /\ arg = [kind |-> "none", name |-> <<>>]
    /\ ret = ""
    /\ mollang_code = <<>>
    /\ tokens = <<>>
    /\ parser_pos = 0
    /\ ast = <<>>
    /\ calls = <<>>
    /\ cpp_code = <<>>
    /\ exc = NoException
    /\ cpp_file = NoFile
    /\ cerr = <<>>
    /\ exit_status = 0
    /\ FrontIdle

CallGetCppVar(n) ==
    LET r == get_cpp_var(Namer, n) IN
    /\ SetNamer(r.st)
    /\ arg' = [kind |-> "var", name |-> n]
    /\ ret' = r.ret
    /\ pc' = "called"
    /\ UNCHANGED <<frontVars, mollang_code, tokens, parser_pos, ast, calls, cpp_code, exc, cpp_file,
                   cerr, exit_status>>

CallGetCppFunc(n) ==
    LET r == get_cpp_func(Namer, n) IN
    /\ SetNamer(r.st)
    /\ arg' = [kind |-> "func", name |-> n]
    /\ ret' = r.ret
    /\ pc' = "called"
    /\ UNCHANGED <<frontVars, mollang_code, tokens, parser_pos, ast, calls, cpp_code, exc, cpp_file,
                   cerr, exit_status>>

NextNamer ==
    \/ \E n \in NamerNames : CallGetCppVar(n)
    \/ \E n \in NamerNames : CallGetCppFunc(n)

SpecNamer == InitNamer /\ [][NextNamer]_vars

\* the generated names in use, tagged with the kind and source name they are for
GeneratedNames ==
    {<<"var", n, variable_map[n]>> : n \in DOMAIN variable_map}
        \cup {<<"func", n, function_map[n]>> : n \in DOMAIN function_map}

NamerInjective ==
    \A a \in GeneratedNames : \A b \in GeneratedNames : a[3] = b[3] => a = b

\* what one lookup step must do
NamerStep ==
    /\ \A n \in DOMAIN variable_map :
           n \in DOMAIN variable_map' /\ variable_map'[n] = variable_map[n]
    /\ \A n \in DOMAIN function_map :
           n \in DOMAIN function_map' /\ function_map'[n] = function_map[n]
    /\ (arg'.kind = "var" /\ arg'.name \in DOMAIN variable_map)
           => ret' = variable_map[arg'.name] /\ Namer' = Namer
    /\ (arg'.kind = "func" /\ arg'.name \in DOMAIN function_map)
           => ret' = function_map[arg'.name] /\ Namer' = Namer
    /\ arg'.kind = "var" => ret' = variable_map'[arg'.name]
    /\ arg'.kind = "func" => ret' = function_map'[arg'.name]

\* C2: after a reset and any sequence of get_cpp_var and get_cpp_func calls,
\* a source name keeps the generated name of its first lookup; a lookup of a
\* registered name returns that name and changes neither map nor counter;
\* and no two distinct (kind, source name) pairs share a generated name.
C2_NamerStableIdempotentInjective ==
    ([]NamerInjective) /\ [][NamerStep]_vars

\* "바압" was registered first as a variable, another variable after it, and
\* the last call looked "바압" up again; it is also registered as a function.
C2_Witness ==
    /\ pc = "called"
    /\ arg = [kind |-> "var", name |-> G_ba \o G_ap]
    /\ ret = "var_0"
    /\ var_counter = 2
    /\ (G_ba \o G_ap) \in DOMAIN function_map

(***************************************************************************)
(* SpecParse: Parser(tokens).parse() on a token vector.                    *)
(***************************************************************************)
\* the tokens of 입, [, ], 밥, 은, 덧셈 and 캠프1
ParseTokens ==
    {Token("KEYWORD", KW_ip), Token("SYMBOL", <<91>>), Token("SYMBOL", <<93>>),
     Token("IDENTIFIER", G_bap), Token("KEYWORD", KW_eun),
     Token("KEYWORD", KW_deotsem), Token("IDENTIFIER", F_call)}

\* tokenize ends every vector with this token
END_OF_FILE == Token("END_OF_FILE", <<>>)

InitParse ==
    /\ pc = "parse"
    /\ \E n \in 0..MaxTokens :
           \E s \in [1..n -> ParseTokens] : tokens = s \o <<END_OF_FILE>>
    /\ arg = 0
    /\ ret = FALSE
    /\ InitGlobals
    /\ mollang_code = <<>>
    /\ parser_pos = 0
    /\ ast = <<>>
    /\ calls = <<>>
    /\ cpp_code = <<>>
    /\ exc = NoException
    /\ cpp_file = NoFile
    /\ cerr = <<>>
    /\ exit_status = 0
    /\ FrontIdle

NextParse == Parse

SpecParse == InitParse /\ [][NextParse]_vars

\* the cursor behind the condition of the If or While statement that starts
\* at token from
ConditionEnd(from) == parse_expression(tokens, from + 1).pos

\* C11: an If or While statement is accepted only when the token right
\* after its condition is the SYMBOL "[" and its body is closed by "]"; a
\* statement whose condition is followed by any other token is never
\* returned by parse_statement.
C11_BlockNeedsOpenBracket ==
    pc \in {"collect", "thrown"} =>
        \A k \in 1..Len(calls) :
            calls[k].type \in {"If", "While"} =>
                /\ tokens[ConditionEnd(calls[k].from) + 1] = Token("SYMBOL", <<91>>)
                /\ tokens[calls[k].to] = Token("SYMBOL", <<93>>)

\* the token vector is a block header at token h ("캠프1 [" or "입 밥 ["),
\* then only complete statements (calls of 캠프1), then END_OF_FILE: the
\* block opened at h is never closed and nothing else is wrong
UnclosedBlockFrom(h) ==
    /\ h < Len(tokens)
    /\ tokens[h] = Token("SYMBOL", <<91>>)
    /\ \/ h = 2 /\ tokens[1] = Token("IDENTIFIER", F_call)
       \/ /\ h = 3
          /\ tokens[1] = Token("KEYWORD", KW_ip)
          /\ tokens[2] = Token("IDENTIFIER", G_bap)
    /\ \A k \in (h + 1)..(Len(tokens) - 1) : tokens[k] = Token("IDENTIFIER", F_call)

\* C12: when a block's "[" has no matching "]" before END_OF_FILE, parsing
\* fails and the diagnostic is the out-of-tokens one of peek or consume,
\* never an invalid-statement-start or invalid-expression-term one.
C12_UnclosedBlockRunsOutOfTokens ==
    (pc \in {"collect", "thrown"} /\ \E h \in 2..3 : UnclosedBlockFrom(h)) =>
        /\ pc = "thrown"
        /\ exc \in {peek_error, consume_error}

\* the iterations the loop of parse_expression made to build node
RECURSIVE Iterations(_)
Iterations(node) ==
    IF node.type = "BinaryOp" THEN 1 + Iterations(node.left) ELSE 0

\* C13: parse terminates on every token vector that ends in END_OF_FILE,
\* returning an AST or raising a diagnostic; the cursor never exceeds
\* tokens.size() and never moves back; every parse_statement call that
\* returns has advanced the cursor by at least one token, which is one
\* iteration of the loop of parse or parse_block; and every iteration of
\* the loop of parse_expression consumes tokens (two of them).
C13_ParseTerminates ==
    /\ pc = "parse" =>
           LET r == parse(tokens) IN
           \/ r.ok /\ r.exc = NoException
           \/ ~r.ok /\ r.exc.kind = "runtime_error" /\ r.val = <<>>
    /\ pc \in {"collect", "thrown"} =>
           /\ parser_pos <= Len(tokens)
           /\ \A k \in 1..Len(calls) :
                  /\ calls[k].from < calls[k].to
                  /\ calls[k].to <= parser_pos
                  /\ k > 1 => calls[k - 1].to <= calls[k].to
           /\ pc = "collect" => parser_pos = Len(tokens) - 1
           /\ \A p \in 0..(Len(tokens) - 1) :
                  LET e == parse_expression(tokens, p) IN
                  /\ p < e.pos
                  /\ e.pos <= Len(tokens)
                  /\ e.ok => e.pos = p + 1 + 2 * Iterations(e.val)

\* 입 밥 [ 캠프1 ] has been parsed: the call inside the block returned, then
\* the If statement, and the cursor is at END_OF_FILE.
C13_Witness ==
    /\ pc = "collect"
    /\ tokens = <<Token("KEYWORD", KW_ip), Token("IDENTIFIER", G_bap),
                  Token("SYMBOL", <<91>>), Token("IDENTIFIER", F_call),
                  Token("SYMBOL", <<93>>), END_OF_FILE>>
    /\ calls = <<[from |-> 3, to |-> 4, type |-> "FuncCall"],
                 [from |-> 0, to |-> 5, type |-> "If"]>>
    /\ parser_pos = 5

(***************************************************************************)
(* SpecFront: the browser front end (src/distribution/script.js).  A       *)
(* handler runs to completion before the next event is taken, so each      *)
(* handler is one action.  The browser sends no click event to a button    *)
(* whose disabled property is true.                                        *)
(***************************************************************************)
compilerVars ==
    <<variable_map, var_counter, function_map, func_counter, pc, mollang_code,
      tokens, parser_pos, ast, calls, cpp_code, exc, cpp_file, cerr,
      exit_status, arg, ret>>

\* the white space String.prototype.trim removes, as far as it is ASCII
js_whitespace(c) == c \in {9, 10, 11, 12, 13, 32}

RECURSIVE trim_start(_)
trim_start(s) ==
    IF s # <<>> /\ js_whitespace(Head(s)) THEN trim_start(Tail(s)) ELSE s

RECURSIVE trim_end(_)
trim_end(s) ==
    IF s # <<>> /\ js_whitespace(s[Len(s)])
    THEN trim_end(SubSeq(s, 1, Len(s) - 1))
    ELSE s

\* s.trim()
trim(s) == trim_end(trim_start(s))

\* s.includes(search)
includes(s, search) ==
    \E i \in 0..(Len(s) - Len(search)) : substr(s, i, Len(search)) = search

\* what the user may have in the code field: nothing, white space only,
\* 스크럼 밥, 퇴근 뭐먹, 스크럼 뭐먹
CodeTexts ==
    {<<>>, <<32, 10>>, F_print, F_return, KW_scrum \o <<32>> \o KW_mwomeok}

\* what the user may have in the input field: nothing, 7
InputTexts == {<<>>, <<55>>}

M_initializing == "Initializing Pyodide..."

M_pyodide_loaded == "\nPyodide loaded. Loading interpreter..."

M_ready == "Ready! Enter your Mol-Lang code and click Run."

M_enter_code == "Please enter some code to run."

M_js_error == "An error occurred in JavaScript:\n"

M_requires_input ==
    "Code requires input. Please provide input below and click 'Submit'."

\* the script up to the first await of main(): lines 1-5, 69-71, 8-9.  The
\* fields and the Submit button are as the page's markup leaves them.
InitFront ==
    /\ page_pc = "loadPyodide"
    /\ output = M_initializing
    /\ runButton = [disabled |-> TRUE, textContent |-> "Loading..."]
    /\ submitButton \in [disabled : BOOLEAN]
    /\ codeInput \in CodeTexts
    /\ inputData \in InputTexts
    /\ codeToRun = <<>>
    /\ isWaitingForInput = FALSE
    /\ interpreter_calls = <<>>
    /\ pc = "idle"
    /\ arg = 0
    /\ ret = FALSE
    /\ IdleRest

\* loadPyodide() has resolved: line 10, then the fetch of interpreter.py
MainPyodideLoaded ==
    /\ page_pc = "loadPyodide"
    /\ output' = output \o M_pyodide_loaded
    /\ page_pc' = "loadInterpreter"
    /\ UNCHANGED <<compilerVars, codeInput, runButton, inputData, submitButton,
                   codeToRun, isWaitingForInput, interpreter_calls>>

\* the interpreter is loaded: lines 15-18, the handlers are added, 64-66
MainLoaded ==
    /\ page_pc = "loadInterpreter"
    /\ output' = M_ready
    /\ codeToRun' = <<>>
    /\ isWaitingForInput' = FALSE
    /\ runButton' = [disabled |-> FALSE, textContent |-> "Run"]
    /\ submitButton' = [disabled |-> TRUE]
    /\ page_pc' = "ready"
    /\ UNCHANGED <<compilerVars, codeInput, inputData, interpreter_calls>>

\* the reset at the end of executeCode with the Run button left as it is (a
\* variant)
executeCode_reset_keeps_run ==
    [isWaitingForInput |-> FALSE, submit_disabled |-> TRUE,
     run_disabled |-> runButton.disabled, input_value |-> <<>>]

\* isWaitingForInput = false; submitButton.disabled = true;
\* runButton.disabled = false; inputData.value = '';
executeCode_reset ==
    [isWaitingForInput |-> FALSE, submit_disabled |-> TRUE,
     run_disabled |-> FALSE, input_value |-> <<>>]

\* executeCode(input) when codeToRun is code; run_mollang_code returns a
\* result or throws, as outcome says
executeCode(code, input, outcome) ==
    IF trim(code) = <<>>
    THEN /\ output' = M_enter_code
         /\ UNCHANGED <<isWaitingForInput, submitButton, runButton, inputData,
                        interpreter_calls>>
    ELSE /\ interpreter_calls'
                = Append(interpreter_calls, [code |-> code, input |-> input])
         /\ output' = IF outcome = "returns" THEN "result"
                      ELSE M_js_error \o "error"
         /\ isWaitingForInput' = executeCode_reset.isWaitingForInput
         /\ submitButton' = [disabled |-> executeCode_reset.submit_disabled]
         /\ runButton' = [runButton EXCEPT
                              !.disabled = executeCode_reset.run_disabled]
         /\ inputData' = executeCode_reset.input_value

\* the click handler of runButton
RunClick ==
    /\ page_pc = "ready"
    /\ ~runButton.disabled
    /\ codeToRun' = codeInput
    /\ IF trim(codeInput) = <<>>
       THEN /\ output' = M_enter_code
            /\ UNCHANGED <<isWaitingForInput, submitButton, runButton, inputData,
                           interpreter_calls>>
       ELSE IF includes(codeInput, KW_mwomeok)
       THEN /\ output' = M_requires_input
            /\ isWaitingForInput' = TRUE
            /\ submitButton' = [disabled |-> FALSE]
            /\ runButton' = [runButton EXCEPT !.disabled = TRUE]
            /\ UNCHANGED <<inputData, interpreter_calls>>
       ELSE /\ Len(interpreter_calls) < MaxInvocations
            /\ \E outcome \in {"returns", "throws"} :
                   executeCode(codeInput, <<>>, outcome)
    /\ UNCHANGED <<compilerVars, page_pc, codeInput>>

\* the click handler of submitButton
SubmitClick ==
    /\ page_pc = "ready"
    /\ ~submitButton.disabled
    /\ IF isWaitingForInput
       THEN /\ Len(interpreter_calls) < MaxInvocations
            /\ \E outcome \in {"returns", "throws"} :
                   executeCode(codeToRun, inputData, outcome)
       ELSE UNCHANGED <<output, isWaitingForInput, submitButton, runButton,
                        inputData, interpreter_calls>>
    /\ UNCHANGED <<compilerVars, page_pc, codeInput, codeToRun>>

\* the user edits the code field
EditCode ==
    /\ \E v \in CodeTexts \ {codeInput} : codeInput' = v
    /\ UNCHANGED <<compilerVars, page_pc, runButton, output, inputData,
                   submitButton, codeToRun, isWaitingForInput,
                   interpreter_calls>>

\* the user edits the input field
EditInput ==
    /\ \E v \in InputTexts \ {inputData} : inputData' = v
    /\ UNCHANGED <<compilerVars, page_pc, codeInput, runButton, output,
                   submitButton, codeToRun, isWaitingForInput,
                   interpreter_calls>>

NextFront ==
    \/ MainPyodideLoaded
    \/ MainLoaded
    \/ RunClick
    \/ SubmitClick
    \/ EditCode
    \/ EditInput

SpecFront == InitFront /\ [][NextFront]_vars

\* once main() has loaded: Run is disabled exactly when isWaitingForInput
\* is true, Submit exactly when it is false
ButtonsFollowWaiting ==
    page_pc = "ready" =>
        /\ runButton.disabled <=> isWaitingForInput
        /\ submitButton.disabled <=> ~isWaitingForInput

\* what a step of the loaded page must do
FrontStep ==
    /\ (RunClick /\ includes(codeInput, KW_mwomeok)) =>
           /\ interpreter_calls' = interpreter_calls
           /\ isWaitingForInput'
           /\ codeToRun' = codeInput
    /\ (isWaitingForInput /\ ~SubmitClick) =>
           /\ interpreter_calls' = interpreter_calls
           /\ codeToRun' = codeToRun
           /\ isWaitingForInput'
    /\ (isWaitingForInput /\ SubmitClick) =>
           /\ interpreter_calls'
                  = Append(interpreter_calls,
                           [code |-> codeToRun, input |-> inputData])
           /\ ~isWaitingForInput'
           /\ ~runButton'.disabled
           /\ submitButton'.disabled

\* C14: once main() has finished loading, after any Run clicks, Submit
\* clicks and edits of the two fields, the Run button is disabled exactly
\* when isWaitingForInput is true and the Submit button exactly when it is
\* false; a Run click on code containing 뭐먹 does not call the interpreter;
\* the interpreter is then called exactly once, by the next Submit click,
\* on the code captured at that Run click, and the page is back to
\* not waiting, Run enabled, Submit disabled.
C14_RunWaitsForSubmit ==
    ([]ButtonsFollowWaiting) /\ [][FrontStep]_vars

\* 퇴근 뭐먹 was run, the code field was edited to 스크럼 밥 while the page
\* waited, 7 was submitted: the one call made is on the captured code.
C14_Witness ==
    /\ page_pc = "ready"
    /\ ~isWaitingForInput
    /\ codeInput = F_print
    /\ codeToRun = F_return
    /\ interpreter_calls = <<[code |-> F_return, input |-> <<55>>]>>
    /\ ~runButton.disabled
    /\ submitButton.disabled

====
